---- MODULE Spec2Model ----
(***************************************************************************)
(* A model of src/src/run.py: the Manager of a Transformer translator.     *)
(*   - make_mask                          (SpecMask)                       *)
(*   - inference, greedy_search, beam_search   (Spec, SpecTie)             *)
(*   - __init__ (checkpoint load), train  (SpecTrain)                      *)
(* The sequence model (encoder, decoder, softmax) is an opaque             *)
(* deterministic function of its input: it is modelled by `stub`, a table  *)
(* that is filled the first time an input is presented and read ever       *)
(* after.  Log-probabilities are integers (a fixed quantum) and scores are *)
(* exact fractions num/den.                                                *)
(***************************************************************************)
EXTENDS Integers, Sequences, FiniteSets, Bags, TLC

\* ---------------------------------------------------------------- constants
\* Token ids of constants.py, imported at run.py:1.
pad_id == 0
sos_id == 1
eos_id == 2

\* ------------------------------------------------------------------- bounds
\* Longest seq_len explored with beam_size = 1 (and by greedy_search).
MaxSeqLen == 5
\* Largest beam_size explored.
MaxBeam == 2
\* Longest seq_len explored with beam_size > 1.
MaxBeamSeqLen == 4
\* Number of calls of Manager.inference on one Manager.
MaxCalls == 2
\* Length of the token sequences given to make_mask.
MaskLen == 3
\* Number of token ids given to make_mask as target tokens.
VocabSize == 5
\* Fall of the log-probability from one rank of the top-k to the next.
Drop == 6
\* num_epochs of constants.py.
MaxEpochs == 4

\* sys.float_info.max, as the largest number of the model.
FloatMax == 2147483647

Vocab == 0..(VocabSize - 1)

None == "None"

VARIABLES
    \* configuration (constants.py) of the run
    seq_len, beam_size,
    \* Manager.inference; calls is the number of calls still to be made
    pc, method, calls, result, printed, error,
    \* the sequence model, as a table from (trg_input, position) to its top-k
    stub,
    \* greedy_search
    last_words, cur_len, i, emitted,
    \* beam_search; popped is the bag of nodes popped so far at this position
    cur_queue, new_queue, finished_count, pos, k, popped,
    \* the ids handed to trg_sp.decode_ids, by the last run of each decoder
    decoded_output, handed,
    \* make_mask
    src_input, trg_input, e_mask, d_mask,
    \* Manager.__init__ and train
    tpc, num_gpus, is_train, ckpt_name, disk, model, optim, best_loss, epoch,
    valid_loss, terror,
    \* history: the epochs after which the checkpoint was written, the
    \* validation losses, what the Manager held at the last save, best_loss
    \* after construction, the number of Managers constructed before this one
    writes, losses, held, best0, gen

cfgVars   == <<seq_len, beam_size>>
inferVars == <<pc, method, calls, result, printed, error>>
greedyVars == <<last_words, cur_len, i, emitted>>
beamVars  == <<cur_queue, new_queue, finished_count, pos, k, popped>>
outVars   == <<decoded_output, handed>>
maskVars  == <<src_input, trg_input, e_mask, d_mask>>
trainVars == <<tpc, num_gpus, is_train, ckpt_name, disk, model, optim,
               best_loss, epoch, valid_loss, terror, writes, losses, held, best0, gen>>
decodeVars == <<cfgVars, inferVars, stub, greedyVars, beamVars, outVars>>
vars == <<decodeVars, maskVars, trainVars>>
\* what the decoders leave alone
rest == <<maskVars, trainVars>>
\* what a decoding step leaves alone besides its own variables
restStep == <<src_input, e_mask, trainVars>>

\* ------------------------------------------------------------------ helpers
Range(s) == {s[x] : x \in DOMAIN s}

\* Python's a[lo:hi] on a 0-indexed list held as a 1-indexed sequence.
Slice(s, lo, hi) == SubSeq(s, lo + 1, hi)

\* [pad_id] * n ; a negative n gives the empty list.
Pads(n) == [x \in 1..n |-> pad_id]

\* Scores are fractions with a positive denominator.
Frac(n, d) == [num |-> n, den |-> d]
FracLess(a, b) == a.num * b.den < b.num * a.den
FracEq(a, b) == a.num * b.den = b.num * a.den

\* ---------------------------------------------------------------- make_mask
\* torch.ones([1, n, n], dtype=torch.bool)
ones(n) == [r \in 1..n |-> [c \in 1..n |-> TRUE]]

\* torch.tril: the entries above the diagonal are cleared.
TrilStrict(m) == [r \in DOMAIN m |-> [c \in DOMAIN m[r] |-> IF c >= r THEN FALSE ELSE m[r][c]]]
tril(m) == [r \in DOMAIN m |-> [c \in DOMAIN m[r] |-> IF c > r THEN FALSE ELSE m[r][c]]]

\* (ids != pad_id).unsqueeze(1): one row, one entry per token
NotPad(ids) == <<[c \in DOMAIN ids |-> ids[c] # pad_id]>>

\* a (1, L) mask & a (L, L) mask: the row is broadcast over the rows
BroadcastAnd(row, m) == [r \in DOMAIN m |-> [c \in DOMAIN m[r] |-> row[1][c] /\ m[r][c]]]

\* Manager.make_mask for one sequence of the batch: (e_mask, d_mask)
make_mask(src, trg) ==
    LET em == NotPad(src)
        dm == NotPad(trg)
        nopeak_mask == tril(ones(seq_len))
    IN  <<em, BroadcastAnd(dm, nopeak_mask)>>

\* Source sequences given to make_mask: padded sentences of one word.
SrcInputs == [1..MaskLen -> {pad_id, 3}]
TrgInputs == [1..MaskLen -> Vocab]

MakeMask ==
    /\ d_mask = << >>
    /\ LET m == make_mask(src_input, trg_input)
       IN  /\ e_mask' = m[1]
           /\ d_mask' = m[2]
    /\ UNCHANGED <<src_input, trg_input, decodeVars, trainVars>>

\* ------------------------------------------------------- the sequence model
\* The top-k of the distribution the model gives at one position: k distinct
\* ids, best first, with their log-probabilities.  The ids are eos at rank er
\* (er = 0: not among the top-k) and the ordinary tokens 3, 4, ... elsewhere;
\* a single candidate may also be pad.
TopKIds(kk) ==
    {[r \in 1..kk |-> IF r = er THEN eos_id ELSE 2 + r] : er \in 0..kk}
        \cup (IF kk = 1 THEN {<<pad_id>>} ELSE {})

\* Log-probabilities by rank, in units of some quantum: all equal, or falling
\* by Drop from each rank to the next.
TopKValues(kk) == {[r \in 1..kk |-> 0 - 1], [r \in 1..kk |-> 0 - (1 + Drop * (r - 1))]}

StubOutputs(kk) == [indices : TopKIds(kk), values : TopKValues(kk)]

\* One forward pass of the decoder on `input`, read at position `at`: `out` is
\* what the model answers, the same on every presentation of the same input.
Forward(input, at, out) ==
    /\ out \in StubOutputs(beam_size)
    /\ <<input, at>> \in DOMAIN stub => out = stub[<<input, at>>]
    /\ stub' = (<<input, at>> :> out) @@ stub

\* trg_sp.decode_ids: the tokenizer is an external codec; its text is kept as
\* a value tagged with the ids it was given.
decode_ids(ids) == [bound |-> TRUE, text_of |-> ids]

\* A local variable that was never assigned.
Unbound == [bound |-> FALSE, text_of |-> << >>]
Methods == {"greedy", "beam", "sample"}

\* ------------------------------------------------------- Manager.inference
\* run.py:190-210: the call, up to the encoder output.
InferenceCall(m) ==
    /\ pc \in {"idle", "done", "failed"}
    /\ calls > 0
    /\ calls' = calls - 1
    /\ method' = m
    /\ result' = Unbound
    /\ error' = None
    /\ printed' = <<"Inference starts.", "Loading sentencepiece tokenizer...",
                    "Preprocessing input sentence...", "Encoding input sentence...">>
    /\ pc' = "dispatch"
    /\ UNCHANGED <<cfgVars, stub, greedyVars, beamVars, outVars, rest>>

\* data_structure.BeamNode
BeamNode(idx, prob, decoded) ==
    [cur_idx |-> idx, prob |-> prob, decoded |-> decoded, is_finished |-> FALSE]

\* The queue of beam_search before the first position.
InitialQueueOne == [n \in {BeamNode(sos_id, Frac(0, 1), <<sos_id>>)} |-> 1]
InitialQueue ==
    [n \in {BeamNode(sos_id, Frac(0, 1), <<sos_id>>)} |-> beam_size]

\* run.py:212-217: the choice of the decoder, and the decoder's first lines.
Dispatch ==
    /\ pc = "dispatch"
    /\ CASE method = "greedy" ->
              /\ printed' = Append(printed, "Greedy decoding selected.")
              /\ last_words' = [x \in 1..seq_len |-> IF x = 1 THEN sos_id ELSE pad_id]
              /\ cur_len' = 1
              /\ i' = 0
              /\ emitted' = << >>
              /\ pc' = "greedy"
              /\ UNCHANGED beamVars
         [] method = "beam" ->
              /\ printed' = Append(printed, "Beam search selected.")
              /\ cur_queue' = InitialQueue
              /\ new_queue' = EmptyBag
              /\ finished_count' = 0
              /\ pos' = 0
              /\ k' = 0
              /\ popped' = EmptyBag
              /\ pc' = "beam"
              /\ UNCHANGED greedyVars
         [] OTHER ->
              /\ pc' = "report"
              /\ UNCHANGED <<printed, greedyVars, beamVars>>
    /\ UNCHANGED <<cfgVars, method, calls, result, error, stub, outVars, rest>>

\* run.py:219-228: the report.  The Input line is printed before result is read.
Report ==
    /\ pc = "report"
    /\ IF result = Unbound
       THEN /\ printed' = Append(printed, "Input")
            /\ error' = "UnboundLocalError"
            /\ pc' = "failed"
       ELSE /\ printed' = printed \o <<"Input", "Result", "Inference finished!">>
            /\ error' = None
            /\ pc' = "done"
    /\ UNCHANGED <<cfgVars, method, calls, result, stub, greedyVars, beamVars, outVars, rest>>

\* ---------------------------------------------------- Manager.greedy_search
\* run.py:236-239: the decoder mask of one iteration.
greedy_d_mask(buffer) ==
    LET dm == NotPad(buffer)
        nopeak_mask == tril(ones(seq_len))
    IN  BroadcastAnd(dm, nopeak_mask)

\* run.py:235-262: one iteration of the loop.
GreedyStep ==
    /\ pc = "greedy"
    /\ i < seq_len
    /\ trg_input' = last_words
    /\ d_mask' = greedy_d_mask(last_words)
    /\ \E out \in StubOutputs(beam_size) :
         /\ Forward(last_words, i, out)
         /\ LET last_word_id == out.indices[1]
            IN  /\ IF i < seq_len - 1
                   THEN /\ last_words' = [last_words EXCEPT ![i + 2] = last_word_id]
                        /\ cur_len' = cur_len + 1
                   ELSE UNCHANGED <<last_words, cur_len>>
                /\ emitted' = Append(emitted, last_word_id)
                /\ IF last_word_id = eos_id
                   THEN /\ i' = i
                        /\ pc' = "greedy_end"
                   ELSE /\ i' = i + 1
                        /\ pc' = IF i + 1 = seq_len THEN "greedy_end" ELSE "greedy"
    /\ UNCHANGED <<cfgVars, method, calls, result, printed, error, beamVars, outVars, restStep>>

\* run.py:264-267: the ids greedy_search hands to the tokenizer.
GreedyOutputAll(buffer, len) == Slice(buffer, 1, Len(buffer))
GreedyOutputShort(buffer, len) ==
    IF buffer[Len(buffer)] = pad_id
    THEN Slice(buffer, 1, len - 1)
    ELSE Slice(buffer, 1, Len(buffer))
GreedyOutput(buffer, len) ==
    IF buffer[Len(buffer)] = pad_id
    THEN Slice(buffer, 1, len)
    ELSE Slice(buffer, 1, Len(buffer))

\* run.py:264-270
GreedyReturn ==
    /\ pc = "greedy_end"
    /\ decoded_output' = GreedyOutput(last_words, cur_len)
    /\ handed' = ("greedy" :> decoded_output') @@ handed
    /\ result' = decode_ids(decoded_output')
    /\ pc' = "report"
    \* the locals of greedy_search end with the call
    /\ trg_input' = << >> /\ d_mask' = << >>
    /\ UNCHANGED <<cfgVars, method, calls, printed, error, stub, greedyVars, beamVars, restStep>>

\* ------------------------------------------------------ Manager.beam_search
\* data_structure.PriorityQueue.put
put(q, n) == q (+) SetToBag({n})

\* data_structure.PriorityQueue.get: a node of the least prob leaves the
\* queue; which one among equals is not determined.
Gettable(q) ==
    {n \in BagToSet(q) : \A m \in BagToSet(q) : ~FracLess(m.prob, n.prob)}
Remove(q, n) == q (-) SetToBag({n})

\* node.decoded + [pad_id] * (seq_len - len(node.decoded))
PadTo(decoded) == decoded \o Pads(seq_len - Len(decoded))

\* run.py:312: new_node.prob / float(len(new_node.decoded))
NormalizeNoStart(prob, len) == Frac(prob.num, prob.den * (len - 1))
Normalize(prob, len) == Frac(prob.num, prob.den * len)

\* run.py:310: -(-node.prob + last_word_prob[i])
Accumulate(prob, logp) == Frac(prob.num - logp * prob.den, prob.den)

\* run.py:310-314: the child of `node` for the candidate of rank r.
NewNodeUnmarked(node, out, r) ==
    BeamNode(out.indices[r], Accumulate(node.prob, out.values[r]),
             Append(node.decoded, out.indices[r]))
NewNode(node, out, r) ==
    LET idx == out.indices[r]
        new_node == BeamNode(idx, Accumulate(node.prob, out.values[r]),
                             Append(node.decoded, idx))
    IN  IF idx = eos_id
        THEN [new_node EXCEPT !.prob = Normalize(new_node.prob, Len(new_node.decoded)),
                              !.is_finished = TRUE]
        ELSE new_node

\* run.py:309-315: the children put into new_queue; they are distinct, for
\* they differ in their last id.
Children(node, out) == SetToBag({NewNode(node, out, r) : r \in 1..beam_size})

\* run.py:311-314: the children that count toward finished_count.
Finishing(out) == Cardinality({r \in 1..beam_size : out.indices[r] = eos_id})

\* run.py:287-290: the decoder mask for the node that is expanded.
BeamMaskNoPeak(input) == BroadcastAnd(NotPad(input), ones(seq_len))
beam_d_mask(input) ==
    LET dm == NotPad(input)
        nopeak_mask == tril(ones(seq_len))
    IN  BroadcastAnd(dm, nopeak_mask)

\* run.py:283-284: a finished node goes to the next queue as it is.
CarryNormalized(q, node) ==
    put(q, [node EXCEPT !.prob = Normalize(node.prob, Len(node.decoded))])
Carry(q, node) == put(q, node)

\* run.py:281-315: one iteration of the inner loop: a node is popped, and is
\* carried over or expanded.
BeamPop ==
    /\ pc = "beam"
    /\ k < beam_size
    /\ IF cur_queue = EmptyBag
       THEN /\ error' = "IndexError"
            /\ pc' = "failed"
            /\ UNCHANGED <<stub, beamVars, trg_input, d_mask>>
       ELSE /\ \E node \in Gettable(cur_queue) :
                 /\ cur_queue' = Remove(cur_queue, node)
                 /\ popped' = popped (+) SetToBag({node})
                 /\ IF node.is_finished
                    THEN /\ new_queue' = Carry(new_queue, node)
                         /\ UNCHANGED <<stub, finished_count, trg_input, d_mask>>
                    ELSE \E out \in StubOutputs(beam_size) :
                           /\ trg_input' = PadTo(node.decoded)
                           /\ d_mask' = beam_d_mask(trg_input')
                           /\ Forward(trg_input', pos, out)
                           /\ new_queue' = new_queue (+) Children(node, out)
                           /\ finished_count' = finished_count + Finishing(out)
            /\ k' = k + 1
            /\ pc' = IF k + 1 = beam_size THEN "beam_endpos" ELSE "beam"
            /\ UNCHANGED <<pos, error>>
    /\ UNCHANGED <<cfgVars, method, calls, result, printed, greedyVars, outVars, restStep>>

\* run.py:319: the test that ends the loop over the positions early.
StopEarly(count) == count = beam_size

\* run.py:317-320, and 279-280 of the next iteration.
BeamEndPos ==
    /\ pc = "beam_endpos"
    /\ cur_queue' = new_queue
    /\ IF StopEarly(finished_count) \/ pos + 1 = seq_len
       THEN /\ pc' = "beam_select"
            /\ UNCHANGED <<new_queue, pos, k, popped>>
       ELSE /\ pc' = "beam"
            /\ new_queue' = EmptyBag
            /\ pos' = pos + 1
            /\ k' = 0
            /\ popped' = EmptyBag
    \* trg_input and d_mask are locals of the iteration, not read after it
    /\ trg_input' = << >> /\ d_mask' = << >>
    /\ UNCHANGED <<cfgVars, method, calls, result, printed, error, stub,
                   finished_count, greedyVars, outVars, restStep>>

\* run.py:324-327: the ids beam_search hands to the tokenizer.
BeamOutputKeep(decoded) == Slice(decoded, 1, Len(decoded))
BeamOutput(decoded) ==
    IF decoded[Len(decoded)] = eos_id
    THEN Slice(decoded, 1, Len(decoded) - 1)
    ELSE Slice(decoded, 1, Len(decoded))

\* run.py:322-329
BeamReturn ==
    /\ pc = "beam_select"
    /\ IF cur_queue = EmptyBag
       THEN /\ error' = "IndexError"
            /\ pc' = "failed"
            /\ UNCHANGED <<cur_queue, result, outVars>>
       ELSE /\ \E node \in Gettable(cur_queue) :
                 /\ decoded_output' = BeamOutput(node.decoded)
            /\ cur_queue' = EmptyBag
            /\ handed' = ("beam" :> decoded_output') @@ handed
            /\ result' = decode_ids(decoded_output')
            /\ pc' = "report"
            /\ UNCHANGED error
    \* the queues of beam_search end with the call
    /\ new_queue' = EmptyBag
    /\ popped' = EmptyBag
    /\ UNCHANGED <<cfgVars, method, calls, printed, stub, greedyVars,
                   finished_count, pos, k, rest>>

\* ------------------------------------------------- Manager.__init__, train
\* Validation losses, in tenths.
Losses == {12, 15, 18, 20}

\* The files of ckpt_dir a Manager may be asked to load.
Names == {"best_ckpt.tar", "last_ckpt.tar"}

\* The model: whether it is wrapped in DataParallel (the keys of its
\* state_dict then begin with "module."), and its parameters.
NoModel == [wrapped |-> FALSE, params |-> 0 - 1]
NoHeld == [model |-> NoModel, optim |-> 0, best_loss |-> FloatMax]

\* run.py:39-47: the model, optimizer and best_loss before any checkpoint
Fresh == [model |-> [wrapped |-> num_gpus > 1, params |-> 0],
          optim |-> 0, best_loss |-> FloatMax]

\* run.py:50: os.path.exists(f"{ckpt_dir}/{ckpt_name}")
ExistsDir(name) == disk.dir
Exists(name) == disk.dir /\ name \in DOMAIN disk.files

\* run.py:57-59: the state of the Manager after the three loads
RestoreNoLoss(checkpoint) ==
    [model |-> checkpoint.model_state_dict, optim |-> checkpoint.optim_state_dict,
     best_loss |-> FloatMax]
Restore(checkpoint) ==
    [model |-> checkpoint.model_state_dict, optim |-> checkpoint.optim_state_dict,
     best_loss |-> checkpoint.loss]

\* run.py:17-76
Construct ==
    /\ tpc = "new"
    /\ IF ckpt_name = None
       THEN \* run.py:61-64: Xavier initialisation
            /\ model' = Fresh.model /\ optim' = Fresh.optim
            /\ best_loss' = Fresh.best_loss
            /\ terror' = None
            /\ tpc' = "ready"
       ELSE IF ~Exists(ckpt_name)
       THEN /\ model' = Fresh.model /\ optim' = Fresh.optim
            /\ best_loss' = Fresh.best_loss
            /\ terror' = "AssertionError"
            /\ tpc' = "failed"
       ELSE IF ckpt_name \notin DOMAIN disk.files
       THEN \* torch.load of a file that is not there
            /\ model' = Fresh.model /\ optim' = Fresh.optim
            /\ best_loss' = Fresh.best_loss
            /\ terror' = "FileNotFoundError"
            /\ tpc' = "failed"
       ELSE LET checkpoint == disk.files[ckpt_name]
                m == Restore(checkpoint)
            IN  IF checkpoint.model_state_dict.wrapped # Fresh.model.wrapped
                THEN \* load_state_dict: the keys do not match
                     /\ model' = Fresh.model /\ optim' = Fresh.optim
                     /\ best_loss' = Fresh.best_loss
                     /\ terror' = "RuntimeError"
                     /\ tpc' = "failed"
                ELSE /\ model' = m.model /\ optim' = m.optim
                     /\ best_loss' = m.best_loss
                     /\ terror' = None
                     /\ tpc' = "ready"
    /\ best0' = best_loss'
    /\ UNCHANGED <<num_gpus, is_train, ckpt_name, disk, epoch, valid_loss,
                   writes, losses, held, gen, decodeVars, maskVars>>

\* run.py:81-130: the batches of one epoch, each with an optimizer step
TrainEpoch ==
    /\ tpc = "ready"
    /\ is_train
    /\ epoch < MaxEpochs
    /\ epoch' = epoch + 1
    /\ model' = [model EXCEPT !.params = @ + 1]
    /\ optim' = optim + 1
    /\ tpc' = "validate"
    /\ UNCHANGED <<num_gpus, is_train, ckpt_name, disk, best_loss, valid_loss,
                   terror, writes, losses, held, best0, gen, decodeVars, maskVars>>

\* run.py:132, 152-188: the mean loss over the validation batches
Validation ==
    /\ tpc = "validate"
    /\ valid_loss' \in Losses
    /\ tpc' = "checkpoint"
    /\ UNCHANGED <<num_gpus, is_train, ckpt_name, disk, model, optim, best_loss,
                   epoch, terror, writes, losses, held, best0, gen,
                   decodeVars, maskVars>>

\* run.py:134
ImprovesOrEqual(loss, best) == loss <= best
Improves(loss, best) == loss < best

\* run.py:139-143
StateDictNoLoss(m, o, l) ==
    [model_state_dict |-> m, optim_state_dict |-> o, loss |-> FloatMax]
StateDict(m, o, l) ==
    [model_state_dict |-> m, optim_state_dict |-> o, loss |-> l]

\* run.py:134-148
SaveBest ==
    /\ tpc = "checkpoint"
    /\ IF Improves(valid_loss, best_loss)
       THEN /\ best_loss' = valid_loss
            /\ disk' = [dir |-> TRUE,
                        files |-> ("best_ckpt.tar" :> StateDict(model, optim, best_loss'))
                                      @@ disk.files]
            /\ writes' = writes \cup {epoch}
            /\ held' = [model |-> model, optim |-> optim, best_loss |-> best_loss']
       ELSE UNCHANGED <<best_loss, disk, writes, held>>
    /\ losses' = Append(losses, valid_loss)
    /\ tpc' = IF epoch = MaxEpochs THEN "trained" ELSE "ready"
    /\ UNCHANGED <<num_gpus, is_train, ckpt_name, model, optim, epoch, valid_loss,
                   terror, best0, gen, decodeVars, maskVars>>

\* run.py:479-488: another process builds a Manager for inference, on the
\* checkpoint directory the training left.
Restart ==
    /\ tpc = "trained"
    /\ gen = 0
    /\ gen' = 1
    /\ is_train' = FALSE
    /\ ckpt_name' \in Names
    /\ model' = NoModel /\ optim' = 0 /\ best_loss' = FloatMax
    /\ tpc' = "new"
    /\ UNCHANGED <<num_gpus, disk, epoch, valid_loss, terror, writes, losses,
                   held, best0, decodeVars, maskVars>>

\* ------------------------------------------------------------ specifications
IdleMask ==
    /\ src_input = << >> /\ trg_input = << >> /\ e_mask = << >> /\ d_mask = << >>

IdleTrain ==
    /\ tpc = "idle" /\ num_gpus = 0 /\ is_train = FALSE /\ ckpt_name = None
    /\ disk = [dir |-> FALSE, files |-> << >>]
    /\ model = NoModel /\ optim = 0 /\ best_loss = FloatMax /\ epoch = 0
    /\ valid_loss = 0 /\ terror = None /\ writes = {} /\ losses = << >>
    /\ held = NoHeld /\ best0 = FloatMax /\ gen = 0

\* The (seq_len, beam_size) explored: every seq_len up to MaxSeqLen with a
\* beam of one, and up to MaxBeamSeqLen with a beam of two, three less for
\* each further hypothesis of the beam.
Configs ==
    {c \in (2..MaxSeqLen) \X (1..MaxBeam) :
        c[2] = 1 \/ c[1] <= MaxBeamSeqLen - 3 * (c[2] - 2)}

\* A beam of one, for the comparison of the two decoders.
PairConfigs == {c \in Configs : c[2] = 1}

InitDecode(configs, n) ==
    /\ \E c \in configs : seq_len = c[1] /\ beam_size = c[2]
    /\ pc = "idle" /\ method = None /\ calls = n /\ result = Unbound
    /\ printed = << >> /\ error = None
    /\ stub = << >>
    /\ last_words = << >> /\ cur_len = 0 /\ i = 0 /\ emitted = << >>
    /\ cur_queue = EmptyBag /\ new_queue = EmptyBag /\ finished_count = 0
    /\ pos = 0 /\ k = 0 /\ popped = EmptyBag
    /\ decoded_output = << >> /\ handed = << >>

Init == InitDecode(Configs, 1) /\ IdleMask /\ IdleTrain

Next ==
    \/ \E m \in Methods : InferenceCall(m)
    \/ Dispatch
    \/ GreedyStep
    \/ GreedyReturn
    \/ BeamPop
    \/ BeamEndPos
    \/ BeamReturn
    \/ Report

\* One call of Manager.inference, with any method and configuration.
Spec == Init /\ [][Next]_vars

\* MaxCalls calls of Manager.inference on the same Manager with a beam of one.
InitPair == InitDecode(PairConfigs, MaxCalls) /\ IdleMask /\ IdleTrain
SpecPair == InitPair /\ [][Next]_vars

\* make_mask on any pair of sequences.
InitMask ==
    /\ src_input \in SrcInputs /\ trg_input \in TrgInputs
    /\ e_mask = << >> /\ d_mask = << >>
    /\ seq_len = MaskLen /\ beam_size = 1
    /\ pc = "idle" /\ method = None /\ calls = 0 /\ result = Unbound
    /\ printed = << >> /\ error = None
    /\ stub = << >>
    /\ last_words = << >> /\ cur_len = 0 /\ i = 0 /\ emitted = << >>
    /\ cur_queue = EmptyBag /\ new_queue = EmptyBag /\ finished_count = 0
    /\ pos = 0 /\ k = 0 /\ popped = EmptyBag
    /\ decoded_output = << >> /\ handed = << >>
    /\ IdleTrain
NextMask == MakeMask
SpecMask == InitMask /\ [][NextMask]_vars

\* A checkpoint some earlier run left.
OldCheckpoints ==
    {StateDict([wrapped |-> w, params |-> 7], 3, l) : w \in BOOLEAN, l \in {15, 18}}

\* The checkpoint directory before the run: absent, or with some of the files.
Disks ==
    {[dir |-> FALSE, files |-> << >>]} \cup
    {[dir |-> TRUE, files |-> [n \in ns |-> c]] : ns \in SUBSET Names, c \in OldCheckpoints}

InitTrain ==
    /\ tpc = "new"
    /\ num_gpus \in {0, 2}
    /\ is_train \in BOOLEAN
    /\ ckpt_name \in Names \cup {None}
    /\ disk \in Disks
    /\ model = NoModel /\ optim = 0 /\ best_loss = FloatMax /\ epoch = 0
    /\ valid_loss = 0 /\ terror = None /\ writes = {} /\ losses = << >>
    /\ held = NoHeld /\ best0 = FloatMax /\ gen = 0
    /\ InitDecode({<<2, 1>>}, 0)
    /\ IdleMask
NextTrain ==
    \/ Construct
    \/ TrainEpoch
    \/ Validation
    \/ SaveBest
    \/ Restart
SpecTrain == InitTrain /\ [][NextTrain]_vars

\* --------------------------------------------------------------- properties
AfterGreedy == method = "greedy" /\ pc \in {"report", "done"}

\* C2: with beam_size = 1 the ids beam_search hands to the tokenizer are the
\* ids greedy_search hands to it, for the same model.
C2_BeamOneEqualsGreedy ==
    (beam_size = 1 /\ DOMAIN handed = {"greedy", "beam"})
        => handed["beam"] = handed["greedy"]

\* C3: when the model emits eos at a step n with n+1 <= L-1, after non-end
\* tokens, greedy_search stops there, the buffer beyond position n+1 is still
\* pad, and the ids returned are the emitted ids, eos included.
C3_GreedyStopsAtEos ==
    (method = "greedy" /\ pc \in {"greedy_end", "report", "done"}
        /\ emitted # << >> /\ emitted[Len(emitted)] = eos_id
        /\ Len(emitted) <= seq_len - 1)
    => /\ i = Len(emitted) - 1
       /\ \A x \in 1..(Len(emitted) - 1) : emitted[x] # eos_id
       /\ \A x \in (Len(emitted) + 2)..seq_len : last_words[x] = pad_id
       /\ AfterGreedy => decoded_output = emitted

C3_Witness ==
    /\ AfterGreedy /\ pc = "done" /\ seq_len = 5
    /\ emitted = <<3, eos_id>> /\ decoded_output = <<3, 2>>

\* C4: greedy_search makes at most L decode steps and returns at most L-1
\* ids; when no step emits eos it returns the L-1 ids at positions 1..L-1
\* of the buffer.
C4_GreedyBounded ==
    method = "greedy" =>
        /\ Len(emitted) <= seq_len
        /\ pc = "greedy" => i < seq_len
        /\ AfterGreedy =>
              /\ Len(decoded_output) <= seq_len - 1
              /\ (\A x \in DOMAIN emitted : emitted[x] # eos_id)
                    => /\ Len(emitted) = seq_len
                       /\ decoded_output = SubSeq(last_words, 2, seq_len)

C4_Witness ==
    /\ AfterGreedy /\ Len(emitted) = seq_len
    /\ \A x \in DOMAIN emitted : emitted[x] # eos_id
    /\ last_words[seq_len] = pad_id
    /\ Len(decoded_output) = seq_len - 1

\* The log-probability the model gave to `id` after `prefix`.
LogProbOf(prefix, id) ==
    LET out == stub[<<PadTo(prefix), Len(prefix) - 1>>]
        r == CHOOSE r \in DOMAIN out.indices : out.indices[r] = id
    IN  out.values[r]

\* The negated sum of the log-probabilities of the ids of `decoded` after the
\* start token.
RECURSIVE RawScore(_)
RawScore(decoded) ==
    IF Len(decoded) <= 1 THEN 0
    ELSE LET prefix == SubSeq(decoded, 1, Len(decoded) - 1)
         IN  RawScore(prefix) - LogProbOf(prefix, decoded[Len(decoded)])

InBeams == BagToSet(cur_queue) \cup BagToSet(new_queue)

\* C5: a finished hypothesis in a beam has the score (negated sum of the
\* log-probabilities of its ids, eos included) / (length of its sequence,
\* start and end tokens counted), in every position it is carried to, and an
\* unfinished one has the undivided sum.
C5_NormalizedOnce ==
    \A n \in InBeams :
        /\ n.is_finished = (n.decoded[Len(n.decoded)] = eos_id /\ Len(n.decoded) > 1)
        /\ IF n.is_finished
           THEN n.prob.num * Len(n.decoded) = RawScore(n.decoded) * n.prob.den
           ELSE n.prob.num = RawScore(n.decoded) * n.prob.den

\* a finished hypothesis, made at an earlier position, is carried over
C5_Witness ==
    /\ pc = "beam" /\ pos >= 2
    /\ \E n \in BagToSet(new_queue) :
         /\ n.is_finished /\ Len(n.decoded) = 3 /\ n.prob = Frac(2, 3)

\* C7: no position is begun with a tally of finished hypotheses that has
\* reached beam_size.
C7_StopsOnceTallyReached ==
    (pc = "beam" /\ k = 0 /\ pos >= 1) => finished_count < beam_size

\* C8: a method other than greedy and beam fails with a ValueError, before
\* any decoder has run and before the Input and Result lines.
C8_InvalidMethodFails ==
    (method \notin {"greedy", "beam", None} /\ pc \in {"report", "done", "failed"})
    => /\ pc # "done"
       /\ handed = << >>
       /\ pc = "failed" => /\ error = "ValueError"
                           /\ "Input" \notin Range(printed)
                           /\ "Result" \notin Range(printed)

\* C1: make_mask lets position r attend to position c exactly when c <= r
\* and the token at c is not pad.
C1_DecoderMask ==
    d_mask # << >> =>
        /\ DOMAIN d_mask = 1..seq_len
        /\ \A r \in 1..seq_len :
             /\ DOMAIN d_mask[r] = 1..seq_len
             /\ \A c \in 1..seq_len :
                  d_mask[r][c] <=> (c <= r /\ trg_input[c] # pad_id)

C1_Witness ==
    /\ trg_input = <<3, pad_id, 4>>
    /\ d_mask = <<<<TRUE, FALSE, FALSE>>, <<TRUE, FALSE, FALSE>>, <<TRUE, FALSE, TRUE>>>>

Min(S) == CHOOSE x \in S : \A y \in S : x <= y

\* The best loss held before epoch e: the one after construction, or the
\* least of the earlier epochs.
BestBefore(e) == Min({best0} \cup {losses[x] : x \in 1..(e - 1)})

\* C6: the checkpoint is written after epoch e exactly when the validation
\* loss of e is strictly less than the best loss held before e; for the
\* losses 2.0, 1.5, 1.8, 1.2 from a fresh Manager, after epochs 1, 2 and 4.
C6_WrittenIffImproved ==
    gen = 0 =>
        /\ writes = {e \in 1..Len(losses) : losses[e] < BestBefore(e)}
        /\ (best0 = FloatMax /\ losses = <<20, 15, 18, 12>>) => writes = {1, 2, 4}

C6_Witness ==
    /\ gen = 0 /\ best0 = FloatMax /\ ckpt_name = None
    /\ losses = <<20, 15, 18, 12>> /\ writes = {1, 2, 4}

\* C9: a Manager built on the checkpoint that train saved holds the model
\* parameters, the optimizer state and the best_loss that the saving Manager
\* held when it saved.
C9_RoundTrip ==
    (gen = 1 /\ tpc # "new" /\ ckpt_name = "best_ckpt.tar" /\ writes # {})
    => /\ tpc = "ready"
       /\ model = held.model
       /\ optim = held.optim
       /\ best_loss = held.best_loss

\* the training went on for two epochs after the save
C9_Witness ==
    /\ gen = 1 /\ tpc = "ready" /\ ckpt_name = "best_ckpt.tar"
    /\ writes = {1, 2} /\ Len(losses) = 4
    /\ model.params = 2 /\ optim = 2 /\ best_loss = losses[2]

\* C10: the construction of a Manager on a checkpoint name with no file fails
\* at the check of run.py:50, with the model, the optimizer and best_loss as
\* they were made, the directory as it was, and nothing run; and nothing
\* follows the failure.
C10_MissingCheckpointFailsFast ==
    [][/\ (tpc = "new" /\ ckpt_name # None /\ ckpt_name \notin DOMAIN disk.files)
           => /\ tpc' = "failed"
              /\ terror' = "AssertionError"
              /\ model' = Fresh.model /\ optim' = Fresh.optim
              /\ best_loss' = FloatMax
              /\ disk' = disk
              /\ epoch' = epoch /\ losses' = losses /\ writes' = writes
              /\ UNCHANGED <<decodeVars, maskVars>>
       /\ tpc = "failed" => FALSE]_vars

C10_Witness ==
    /\ tpc = "failed" /\ terror = "AssertionError"
    /\ ckpt_name = "last_ckpt.tar" /\ disk.dir /\ DOMAIN disk.files = {"best_ckpt.tar"}
    /\ gen = 1 /\ writes # {}


\* ------------------------------------------------------------ beam contents
\* The state at the start of a decode position, or at result selection.
AtPositionStart == (pc = "beam" /\ k = 0) \/ pc = "beam_select"

\* C11: at the start of every decode position and at result selection the
\* current beam holds exactly beam_size hypotheses.
C11_BeamHoldsBeamSize ==
    AtPositionStart => BagCardinality(cur_queue) = beam_size

\* The node popped by a step of the inner loop.
JustPopped == CHOOSE n \in BagToSet(popped' (-) popped) : TRUE
PopsFinished ==
    /\ pc = "beam"
    /\ BagCardinality(popped') = BagCardinality(popped) + 1
    /\ JustPopped.is_finished

C13_LengthAtMostL ==
    /\ Len(last_words) <= seq_len
    /\ \A n \in InBeams : Len(n.decoded) <= seq_len


\* C14: beam_search hands over the decoded of a hypothesis whose stored score
\* no hypothesis of the final beam undercuts, without its first token, and
\* without its last token exactly when that token is eos.
C14_ReturnsBestStripped ==
    [][(pc = "beam_select" /\ pc' = "report") =>
         \E n \in BagToSet(cur_queue) :
            /\ \A m \in BagToSet(cur_queue) : ~FracLess(m.prob, n.prob)
            /\ LET body == Tail(n.decoded)
               IN  decoded_output' =
                     IF body # << >> /\ body[Len(body)] = eos_id
                     THEN SubSeq(body, 1, Len(body) - 1)
                     ELSE body]_vars

\* the search stopped at position 2 on the tally and a hypothesis finished
\* there was returned, stripped of sos and eos
C14_Witness ==
    /\ method = "beam" /\ pc = "report" /\ beam_size = 2
    /\ Len(decoded_output) = 2 /\ eos_id \notin Range(decoded_output)
    /\ seq_len = 4 /\ pos = 2 /\ finished_count = 2

\* C15: the decoder mask greedy_search and beam_search build in their loops is
\* the decoder mask make_mask builds for the same token sequence.
C15_InlineMaskIsMakeMask ==
    (pc \in {"greedy", "greedy_end", "beam", "beam_endpos"} /\ d_mask # << >>)
        => d_mask = make_mask(trg_input, trg_input)[2]

\* a mask with a pad column and a causal triangle
C15_Witness ==
    /\ pc \in {"greedy", "beam"} /\ seq_len >= 3 /\ d_mask # << >>
    /\ trg_input[2] # pad_id /\ trg_input[seq_len] = pad_id
    /\ d_mask[2][2] /\ ~d_mask[1][2] /\ ~d_mask[seq_len][seq_len]

\* Every distribution the model has produced has pairwise distinct
\* log-probabilities.
DistinctLogProbs ==
    \A key \in DOMAIN stub :
        \A r1, r2 \in DOMAIN stub[key].values :
            r1 # r2 => stub[key].values[r1] # stub[key].values[r2]

\* C16: with beam_size >= 2 and distinct log-probabilities, at a position
\* after the first where no popped hypothesis is finished, the hypotheses
\* popped are not all the same decoded sequence.
C16_ExpandsDifferentSequences ==
    (/\ pc = "beam_endpos" /\ beam_size >= 2 /\ pos >= 1
     /\ BagCardinality(popped) = beam_size
     /\ \A n \in BagToSet(popped) : ~n.is_finished
     /\ DistinctLogProbs)
    => \E a, b \in BagToSet(popped) : a.decoded # b.decoded

\* C17: when the search stopped before the last position on the tally, the
\* hypothesis the result is taken from is a finished one.
C17_EarlyStopReturnsFinished ==
    (pc = "beam_select" /\ StopEarly(finished_count) /\ pos < seq_len - 1)
        => \A n \in Gettable(cur_queue) :
              n.is_finished /\ n.decoded[Len(n.decoded)] = eos_id

\* C18: at the start of every position and at result selection the beam holds
\* at least beam_size and at most beam_size squared hypotheses, and no pop
\* meets an empty queue.
C18_QueueWithinBounds ==
    /\ AtPositionStart =>
         /\ BagCardinality(cur_queue) >= beam_size
         /\ BagCardinality(cur_queue) <= beam_size * beam_size
    /\ error # "IndexError"

C18_Witness ==
    /\ pc = "beam" /\ k = 0 /\ pos >= 2 /\ beam_size = 2
    /\ BagCardinality(cur_queue) = beam_size * beam_size

\* C19: an unfinished hypothesis popped at position pos has pos + 1 tokens,
\* the first of them the start token, none of them eos.
C19_PoppedUnfinishedShape ==
    pc \in {"beam", "beam_endpos"} =>
        \A n \in BagToSet(popped) :
            ~n.is_finished =>
                /\ Len(n.decoded) = pos + 1
                /\ n.decoded[1] = sos_id
                /\ eos_id \notin Range(n.decoded)
                /\ seq_len - Len(n.decoded) >= 0

\* an unfinished hypothesis popped at the last position, beside a finished one
C19_Witness ==
    /\ pc = "beam_endpos" /\ pos = seq_len - 1 /\ pos >= 2
    /\ \E a, b \in BagToSet(popped) : ~a.is_finished /\ b.is_finished

\* C20: over the epochs of a run best_loss never increases, after each epoch
\* it is the least of its value after construction and the validation losses
\* so far, and once a checkpoint was written the loss in best_ckpt.tar is
\* best_loss.
C20_BestLossIsRunningMinimum ==
    [][/\ (tpc # "new" /\ gen' = 0) => best_loss' <= best_loss
       /\ tpc = "checkpoint" =>
            /\ best_loss' = Min({best0} \cup Range(losses'))
            /\ writes' # {} => disk'.files["best_ckpt.tar"].loss = best_loss']_vars

\* a run resumed from a checkpoint of loss 1.8: epochs 2 and 4 improved on it
C20_Witness ==
    /\ gen = 0 /\ tpc = "trained" /\ best0 = 18
    /\ losses = <<20, 15, 18, 12>> /\ writes = {2, 4}
    /\ best_loss = 12 /\ disk.files["best_ckpt.tar"].loss = 12

====
